---- MODULE Spec2Model ----
(***************************************************************************)
(* Document question answering: src/app.py (local Ollama provider) and     *)
(* src/app_api.py (hosted OpenRouter provider).                            *)
(*                                                                         *)
(* Python strings and byte strings are sequences of one-character strings, *)
(* so that strip(), lower(), endswith(), join() and concatenation are      *)
(* computed character by character.                                        *)
(***************************************************************************)
EXTENDS Integers, Sequences, FiniteSets, TLC

VARIABLES
    variant,         \* which program runs: "local" (app.py) or "hosted" (app_api.py)
    secrets,         \* st.secrets of the deployment
    env,             \* os.environ of the process
    question,        \* text typed in the question box
    uploaded_files,  \* files in the uploader, in the order supplied
    model_name,      \* model identifier handed to ask_ollama
    pc,              \* position of main(): form, warned, loop, asked, done, aborted
    idx,             \* number of files the for loop has processed
    texts,           \* get_file_text results so far, one per processed file
    context,         \* the context string built so far
    exc,             \* the exception that left main(), if any
    http_calls,      \* number of requests.post calls issued
    request,         \* the request handed to requests.post
    response,        \* what the provider answered
    answer,          \* value returned by ask_ollama
    displayed        \* value written to the page by st.write(answer)

vars == <<variant, secrets, env, question, uploaded_files, model_name, pc, idx,
          texts, context, exc, http_calls, request, response, answer, displayed>>

(***************************************************************************)
(* Bounds of the model.                                                    *)
(***************************************************************************)
MaxFiles == 2

(***************************************************************************)
(* Python values.                                                          *)
(***************************************************************************)
None == [some |-> FALSE]
Some(s) == [some |-> TRUE, s |-> s]

\* Truth value of an optional string: None and "" are falsy.
Truthy(o) == o.some /\ o.s # <<>>

Return(v) == [raised |-> FALSE, value |-> v]
Raise(type, msg) == [raised |-> TRUE, exc |-> [type |-> type, msg |-> msg]]

NoExc == [type |-> "none", msg |-> <<>>]

(***************************************************************************)
(* str methods.                                                            *)
(***************************************************************************)
Whitespace == {" ", "\n", "\t", "\r"}

RECURSIVE LStrip(_)
LStrip(s) == IF s # <<>> /\ Head(s) \in Whitespace THEN LStrip(Tail(s)) ELSE s

RECURSIVE RStrip(_)
RStrip(s) ==
    IF s # <<>> /\ s[Len(s)] \in Whitespace
    THEN RStrip(SubSeq(s, 1, Len(s) - 1))
    ELSE s

\* str.strip()
Strip(s) == RStrip(LStrip(s))

UpperLetters == <<"A","B","C","D","E","F","G","H","I","J","K","L","M","N","O","P","Q","R","S","T","U","V","W","X","Y","Z">>
LowerLetters == <<"a","b","c","d","e","f","g","h","i","j","k","l","m","n","o","p","q","r","s","t","u","v","w","x","y","z">>

LowerChar(c) ==
    IF \E i \in 1..26 : UpperLetters[i] = c
    THEN LowerLetters[CHOOSE i \in 1..26 : UpperLetters[i] = c]
    ELSE c

\* str.lower()
Lower(s) == [i \in 1..Len(s) |-> LowerChar(s[i])]

\* str.endswith(suffix)
EndsWith(s, suffix) ==
    /\ Len(suffix) <= Len(s)
    /\ SubSeq(s, Len(s) - Len(suffix) + 1, Len(s)) = suffix

\* sep.join(parts)
RECURSIVE Join(_, _)
Join(parts, sep) ==
    IF parts = <<>> THEN <<>>
    ELSE IF Len(parts) = 1 THEN parts[1]
    ELSE parts[1] \o sep \o Join(Tail(parts), sep)

NL == <<"\n">>

(***************************************************************************)
(* Uploaded files.  A file is a name and its bytes; `kind` and `doc` say   *)
(* what the bytes are and what a parser of that format reads in them.      *)
(***************************************************************************)
InvalidByte == "xFF"   \* a byte that is no valid UTF-8

IsValidByte(b) == b # InvalidByte

\* bytes.decode("utf-8", errors="ignore")
DecodeIgnore(bytes) == SelectSeq(bytes, IsValidByte)

Page(extract) == [extract |-> extract]

File_a_txt ==
    [name |-> <<"a",".","t","x","t">>, kind |-> "plain",
     bytes |-> <<"X", InvalidByte>>, doc |-> <<>>]
File_p0_pdf ==
    [name |-> <<"p","0",".","p","d","f">>, kind |-> "pdf",
     bytes |-> <<"%","P","D","F", InvalidByte>>, doc |-> <<>>]
File_P1_PDF ==
    [name |-> <<"P","1",".","P","D","F">>, kind |-> "pdf",
     bytes |-> <<"%","P","D","F", InvalidByte>>, doc |-> <<Page(Some(<<"a">>))>>]
File_p3_pdf ==
    [name |-> <<"p","3",".","p","d","f">>, kind |-> "pdf",
     bytes |-> <<"%","P","D","F", InvalidByte>>,
     doc |-> <<Page(Some(<<"a">>)), Page(None), Page(Some(<<"b">>))>>]
File_bad_pdf ==
    [name |-> <<"b","a","d",".","p","d","f">>, kind |-> "plain",
     bytes |-> <<"X">>, doc |-> <<>>]
File_d_docx ==
    [name |-> <<"d",".","d","o","c","x">>, kind |-> "docx",
     bytes |-> <<"P","K", InvalidByte>>,
     doc |-> << <<"H","e","l","l","o">>, <<"W","o","r","l","d">> >>]
File_h_html ==
    [name |-> <<"h",".","h","t","m","l">>, kind |-> "html",
     bytes |-> <<"<","p",">","A","<","/","p",">","<","p",">","B","<","/","p",">">>,
     doc |-> << <<"A">>, <<"B">> >>]

\* What st.file_uploader(type=["txt","pdf","docx","html","htm"]) can hand over.
Files ==
    {File_a_txt, File_p0_pdf, File_P1_PDF, File_p3_pdf, File_bad_pdf,
     File_d_docx, File_h_html}

FileLists == UNION {[1..n -> Files] : n \in 0..MaxFiles}

(***************************************************************************)
(* The parsers called by get_file_text.                                    *)
(***************************************************************************)
\* PdfReader(stream).pages: the pages, or an exception on bytes that are no PDF.
PdfReader(f) ==
    IF f.kind = "pdf" THEN Return(f.doc)
    ELSE Raise("PdfReadError", <<"E","O","F"," ","m","a","r","k","e","r"," ","n","o","t"," ","f","o","u","n","d">>)

\* Document(stream).paragraphs: the paragraph texts, or an exception.
Document(f) ==
    IF f.kind = "docx" THEN Return(f.doc)
    ELSE Raise("BadZipFile", <<"F","i","l","e"," ","i","s"," ","n","o","t"," ","a"," ","z","i","p"," ","f","i","l","e">>)

\* BeautifulSoup(decoded, "html.parser").get_text(separator="\n")
SoupGetText(f) ==
    IF f.kind = "html" THEN Join(f.doc, NL) ELSE DecodeIgnore(f.bytes)

\* page.extract_text() or ""
PageTextOrEmpty(p) == IF Truthy(p.extract) THEN p.extract.s ELSE <<>>

RECURSIVE MapPageText(_)
MapPageText(pages) ==
    IF pages = <<>> THEN <<>>
    ELSE <<PageTextOrEmpty(Head(pages))>> \o MapPageText(Tail(pages))

\* app.py: text += page_text + "\n" for each page whose text is truthy
RECURSIVE PdfTextLocal(_)
PdfTextLocal(pages) ==
    IF pages = <<>> THEN <<>>
    ELSE (IF Truthy(Head(pages).extract) THEN Head(pages).extract.s \o NL ELSE <<>>)
         \o PdfTextLocal(Tail(pages))

\* app_api.py: "\n".join(text_parts)
PdfTextHosted(pages) == Join(MapPageText(pages), NL)

\* app.py: text += para.text + "\n" for each paragraph
RECURSIVE DocxTextLocal(_)
DocxTextLocal(paras) ==
    IF paras = <<>> THEN <<>>
    ELSE Head(paras) \o NL \o DocxTextLocal(Tail(paras))

\* app_api.py: "\n".join(paragraphs)
DocxTextHosted(paras) == Join(paras, NL)

Ext_txt == <<".","t","x","t">>
Ext_pdf == <<".","p","d","f">>
Ext_docx == <<".","d","o","c","x">>
Ext_html == <<".","h","t","m","l">>
Ext_htm == <<".","h","t","m">>

UnsupportedPlaceholder(name) ==
    <<"[","U","n","s","u","p","p","o","r","t","e","d"," ","f","i","l","e"," ","t","y","p","e"," ","f","o","r"," ">>
    \o name \o <<"]">>

\* get_file_text of app.py
GetFileTextLocal(f) ==
    LET name == Lower(f.name) IN
    IF EndsWith(name, Ext_txt) THEN Return(DecodeIgnore(f.bytes))
    ELSE IF EndsWith(name, Ext_pdf) THEN
        LET reader == PdfReader(f) IN
        IF reader.raised THEN reader ELSE Return(PdfTextLocal(reader.value))
    ELSE IF EndsWith(name, Ext_docx) THEN
        LET doc == Document(f) IN
        IF doc.raised THEN doc ELSE Return(DocxTextLocal(doc.value))
    ELSE IF EndsWith(name, Ext_html) \/ EndsWith(name, Ext_htm) THEN
        Return(SoupGetText(f))
    ELSE Return(DecodeIgnore(f.bytes))

\* get_file_text of app_api.py
GetFileTextHosted(f) ==
    LET name == Lower(f.name) IN
    IF EndsWith(name, Ext_txt) THEN Return(DecodeIgnore(f.bytes))
    ELSE IF EndsWith(name, Ext_pdf) THEN
        LET reader == PdfReader(f) IN
        IF reader.raised THEN reader ELSE Return(PdfTextHosted(reader.value))
    ELSE IF EndsWith(name, Ext_docx) THEN
        LET doc == Document(f) IN
        IF doc.raised THEN doc ELSE Return(DocxTextHosted(doc.value))
    ELSE IF EndsWith(name, Ext_html) \/ EndsWith(name, Ext_htm) THEN
        Return(SoupGetText(f))
    ELSE Return(UnsupportedPlaceholder(f.name))

get_file_text(v, f) ==
    IF v = "local" THEN GetFileTextLocal(f) ELSE GetFileTextHosted(f)

(***************************************************************************)
(* main(): context assembly.                                               *)
(***************************************************************************)
\* mutant: a file without text gets no section
Section_SkipEmpty(v, name, text) ==
    IF text = <<>> THEN <<>>
    ELSE (IF v = "local" THEN <<"\n","-","-","-"," ">> ELSE <<"\n","\n","-","-","-"," ">>)
         \o name \o <<" ","-","-","-","\n">> \o text

\* app.py: "\n--- " + f.name + " ---\n" + text
\* app_api.py: f"\n\n--- {f.name} ---\n{text}"
Section(v, name, text) ==
    (IF v = "local" THEN <<"\n","-","-","-"," ">> ELSE <<"\n","\n","-","-","-"," ">>)
    \o name \o <<" ","-","-","-","\n">> \o text

\* mutant: the new section is put in front of the context
AddSection_Prepend(ctx, section) == section \o ctx

\* context += section
AddSection(ctx, section) == ctx \o section

(***************************************************************************)
(* ask_ollama: credential, user message, request.                          *)
(***************************************************************************)
KEY_NAME == <<"O","P","E","N","R","O","U","T","E","R","_","A","P","I","_","K","E","Y">>

\* st.secrets: unavailable (any access raises), or a mapping of names to values
SecretStores ==
    { [avail |-> FALSE, store |-> <<>>],
      [avail |-> TRUE, store |-> <<>>],
      [avail |-> TRUE, store |-> (KEY_NAME :> <<>>)],
      [avail |-> TRUE, store |-> (KEY_NAME :> <<"s","k","-","s">>)] }

\* os.environ
Environments ==
    { <<>>, (KEY_NAME :> <<>>), (KEY_NAME :> <<"s","k","-","e">>) }

\* try: if KEY in st.secrets: api_key = st.secrets[KEY]   except Exception: pass
SecretLookup(sec) ==
    IF sec.avail /\ KEY_NAME \in DOMAIN sec.store THEN Some(sec.store[KEY_NAME]) ELSE None

\* os.getenv(KEY)
GetEnv(ev) == IF KEY_NAME \in DOMAIN ev THEN Some(ev[KEY_NAME]) ELSE None

\* mutant: the environment is asked first, the secret store is the fallback
ResolveApiKey_EnvFirst(sec, ev) ==
    LET api_key == GetEnv(ev) IN
    IF ~Truthy(api_key) THEN SecretLookup(sec) ELSE api_key

\* api_key after "if not api_key: api_key = os.getenv(...)"
ResolveApiKey(sec, ev) ==
    LET api_key == SecretLookup(sec) IN
    IF ~Truthy(api_key) THEN GetEnv(ev) ELSE api_key

\* mutant: "if api_key is None", which lets an empty key through
HasApiKey_NoneOnly(v, sec, ev) == v = "local" \/ ResolveApiKey(sec, ev).some

\* "if not api_key: return <message>": whether ask_ollama goes on to the request
HasApiKey(v, sec, ev) == v = "local" \/ Truthy(ResolveApiKey(sec, ev))

NoKeyMessage ==
    <<"E","r","r","o","r",":"," ","N","o"," ","O","p","e","n","R","o","u","t","e","r"," ","A","P","I"," ","k","e","y"," ","f","o","u","n","d",".","\n","\n","S","e","t"," ","O","P","E","N","R","O","U","T","E","R","_","A","P","I","_","K","E","Y"," ","i","n"," ","y","o","u","r"," ","e","n","v","i","r","o","n","m","e","n","t",","," ","o","r"," ","a","d","d"," ","i","t"," ","t","o"," ","S","t","r","e","a","m","l","i","t"," ","s","e","c","r","e","t","s"," ","a","s"," ","O","P","E","N","R","O","U","T","E","R","_","A","P","I","_","K","E","Y",".">>

ContextPrefix == <<"C","o","n","t","e","x","t",":","\n">>
QuestionInfix == <<"\n","\n","Q","u","e","s","t","i","o","n",":"," ">>

\* mutant: "if context:", without strip()
UserMessage_NoStrip(q, ctx) ==
    IF ctx # <<>> THEN ContextPrefix \o ctx \o QuestionInfix \o q ELSE q

\* if context.strip(): "Context:\n{context}\n\nQuestion: {question}"  else: question
UserMessage(q, ctx) ==
    IF Strip(ctx) # <<>> THEN ContextPrefix \o ctx \o QuestionInfix \o q ELSE q

Timeout == 120

SystemMessage(v) ==
    IF v = "local"
    THEN "You are a helpful assistant. Use the document context if it helps. If you don't know from the context, say you don't know."
    ELSE "You are a helpful assistant."

Messages(v, user_message) ==
    << [role |-> "system", content |-> SystemMessage(v)],
       [role |-> "user", content |-> user_message] >>

BearerPrefix == <<"B","e","a","r","e","r"," ">>

\* the arguments of requests.post
BuildRequest(v, model, user_message, api_key) ==
    IF v = "local"
    THEN [sent |-> TRUE,
          url |-> "http://localhost:11434/api/chat",
          headers |-> <<>>,
          json |-> [model |-> model, messages |-> Messages(v, user_message),
                    stream |-> FALSE],
          timeout |-> Timeout]
    ELSE [sent |-> TRUE,
          url |-> "https://openrouter.ai/api/v1/chat/completions",
          headers |-> [Authorization |-> BearerPrefix \o api_key.s,
                       XTitle |-> "OKStateProject2-App",
                       ContentType |-> "application/json"],
          json |-> [model |-> model, messages |-> Messages(v, user_message),
                    temperature |-> "0.2"],
          timeout |-> Timeout]

NoRequest == [sent |-> FALSE]

(***************************************************************************)
(* The provider's answer and its JSON body.                                *)
(***************************************************************************)
JStr(s) == [t |-> "str", s |-> s]
JDict(d) == [t |-> "dict", d |-> d]
JList(l) == [t |-> "list", l |-> l]

K_message == <<"m","e","s","s","a","g","e">>
K_content == <<"c","o","n","t","e","n","t">>
K_choices == <<"c","h","o","i","c","e","s">>
K_role == <<"r","o","l","e">>

Reply == JDict(K_role :> JStr(<<"a","s","s","i","s","t","a","n","t">>) @@ K_content :> JStr(<<"h","i">>))

Body_malformed == [wellformed |-> FALSE]
Body_empty == [wellformed |-> TRUE, json |-> JDict(<<>>)]
Body_list == [wellformed |-> TRUE, json |-> JList(<<>>)]
Body_msg_nocontent ==
    [wellformed |-> TRUE,
     json |-> JDict(K_message :> JDict(K_role :> JStr(<<"a","s","s","i","s","t","a","n","t">>)))]
Body_local_ok == [wellformed |-> TRUE, json |-> JDict(K_message :> Reply)]
Body_choices_empty == [wellformed |-> TRUE, json |-> JDict(K_choices :> JList(<<>>))]
Body_hosted_ok ==
    [wellformed |-> TRUE,
     json |-> JDict(K_choices :> JList(<<JDict(K_message :> Reply)>>))]

Bodies ==
    {Body_malformed, Body_empty, Body_list, Body_msg_nocontent, Body_local_ok,
     Body_choices_empty, Body_hosted_ok}

Responses ==
    { [kind |-> "conn_error"], [kind |-> "timeout"],
      [kind |-> "http", status |-> 500, body |-> Body_malformed] }
    \cup { [kind |-> "http", status |-> 200, body |-> b] : b \in Bodies }

NoResponse == [kind |-> "none"]

\* requests.post(...): the response object, or the transport's exception
RequestsPost(resp) ==
    IF resp.kind = "conn_error"
    THEN Raise("ConnectionError", <<"C","o","n","n","e","c","t","i","o","n"," ","r","e","f","u","s","e","d">>)
    ELSE IF resp.kind = "timeout"
    THEN Raise("Timeout", <<"R","e","a","d"," ","t","i","m","e","d"," ","o","u","t">>)
    ELSE Return(resp)

\* response.raise_for_status()
RaiseForStatus(resp) ==
    IF resp.status >= 400
    THEN Raise("HTTPError", <<"5","0","0"," ","S","e","r","v","e","r"," ","E","r","r","o","r">>)
    ELSE Return(resp)

\* response.json()
ResponseJson(resp) ==
    IF resp.body.wellformed THEN Return(resp.body.json)
    ELSE Raise("JSONDecodeError", <<"E","x","p","e","c","t","i","n","g"," ","v","a","l","u","e">>)

Quote == <<"'">>

\* j.get(key, default)
DictGet(j, key, default) ==
    IF j.t = "dict"
    THEN Return(IF key \in DOMAIN j.d THEN j.d[key] ELSE default)
    ELSE Raise("AttributeError",
               Quote \o (IF j.t = "list" THEN <<"l","i","s","t">> ELSE <<"s","t","r">>) \o Quote
               \o <<" ","o","b","j","e","c","t"," ","h","a","s"," ","n","o"," ","a","t","t","r","i","b","u","t","e"," ","'","g","e","t","'">>)

\* j[key] for a string key
Subscript(j, key) ==
    IF j.t = "dict"
    THEN IF key \in DOMAIN j.d THEN Return(j.d[key])
         ELSE Raise("KeyError", Quote \o key \o Quote)
    ELSE IF j.t = "list"
    THEN Raise("TypeError", <<"l","i","s","t"," ","i","n","d","i","c","e","s"," ","m","u","s","t"," ","b","e"," ","i","n","t","e","g","e","r","s"," ","o","r"," ","s","l","i","c","e","s",","," ","n","o","t"," ","s","t","r">>)
    ELSE Raise("TypeError", <<"s","t","r","i","n","g"," ","i","n","d","i","c","e","s"," ","m","u","s","t"," ","b","e"," ","i","n","t","e","g","e","r","s">>)

\* j[0]
SubscriptZero(j) ==
    IF j.t = "list"
    THEN IF j.l # <<>> THEN Return(j.l[1])
         ELSE Raise("IndexError", <<"l","i","s","t"," ","i","n","d","e","x"," ","o","u","t"," ","o","f"," ","r","a","n","g","e">>)
    ELSE IF j.t = "dict"
    THEN Raise("KeyError", <<"0">>)
    ELSE IF j.s # <<>> THEN Return(JStr(<<j.s[1]>>))
         ELSE Raise("IndexError", <<"s","t","r","i","n","g"," ","i","n","d","e","x"," ","o","u","t"," ","o","f"," ","r","a","n","g","e">>)

\* app.py: json_data.get("message", {}).get("content", "")
ReplyLocal(json_data) ==
    LET message == DictGet(json_data, K_message, JDict(<<>>)) IN
    IF message.raised THEN message
    ELSE DictGet(message.value, K_content, JStr(<<>>))

\* app_api.py: json_data["choices"][0]["message"]["content"]
ReplyHosted(json_data) ==
    LET choices == Subscript(json_data, K_choices) IN
    IF choices.raised THEN choices ELSE
    LET first == SubscriptZero(choices.value) IN
    IF first.raised THEN first ELSE
    LET message == Subscript(first.value, K_message) IN
    IF message.raised THEN message
    ELSE Subscript(message.value, K_content)

\* the body of the try block: post, raise_for_status, json, reply extraction
TryBlock(v, resp) ==
    LET posted == RequestsPost(resp) IN
    IF posted.raised THEN posted ELSE
    LET checked == RaiseForStatus(posted.value) IN
    IF checked.raised THEN checked ELSE
    LET json_data == ResponseJson(checked.value) IN
    IF json_data.raised THEN json_data
    ELSE IF v = "local" THEN ReplyLocal(json_data.value) ELSE ReplyHosted(json_data.value)

ErrorPrefix(v) ==
    IF v = "local"
    THEN <<"E","r","r","o","r"," ","t","a","l","k","i","n","g"," ","t","o"," ","O","l","l","a","m","a",":"," ">>
    ELSE <<"E","r","r","o","r"," ","c","a","l","l","i","n","g"," ","h","o","s","t","e","d"," ","L","L","M"," ","A","P","I",":"," ">>

\* mutant: the error string leaves out the exception's text
ExceptHandler_NoDetail(v, e) == ErrorPrefix(v)

\* except Exception as e: return f"Error ...: {e}"
ExceptHandler(v, e) == ErrorPrefix(v) \o e.msg

\* what ask_ollama returns once the request is sent (the replies drawn are strings)
AskResult(v, resp) ==
    LET r == TryBlock(v, resp) IN
    IF r.raised THEN ExceptHandler(v, r.exc) ELSE r.value.s

(***************************************************************************)
(* Inputs.                                                                 *)
(***************************************************************************)
Variants == {"local", "hosted"}

\* app.py: model_name = "llama3.2:1b"; app_api.py: the options of st.selectbox
ModelChoices(v) ==
    IF v = "local" THEN {"llama3.2:1b"}
    ELSE {"meta-llama/llama-3.1-8b-instruct", "qwen/qwen-2.5-7b-instruct",
          "mistralai/mistral-7b-instruct"}

Questions == { <<>>, <<" ","\n">>, <<"Q","?">> }

Contexts == { <<>>, <<" ">>, <<"\n","\t">>, <<"x">>, <<" ","x","\n">> }

(***************************************************************************)
(* main(): one run of the script on a click of "Ask".                      *)
(***************************************************************************)
Init ==
    /\ variant \in Variants
    /\ secrets \in SecretStores
    /\ env \in Environments
    /\ question \in Questions
    /\ uploaded_files \in FileLists
    /\ model_name \in ModelChoices(variant)
    /\ pc = "form"
    /\ idx = 0
    /\ texts = <<>>
    /\ context = <<>>
    /\ exc = NoExc
    /\ http_calls = 0
    /\ request = NoRequest
    /\ response = NoResponse
    /\ answer = None
    /\ displayed = None

\* if question.strip() == "": st.warning(...)
WarnBlank ==
    /\ pc = "form"
    /\ Strip(question) = <<>>
    /\ pc' = "warned"
    /\ UNCHANGED <<variant, secrets, env, question, uploaded_files, model_name, idx,
                   texts, context, exc, http_calls, request, response, answer, displayed>>

\* else: context = ""
StartAsk ==
    /\ pc = "form"
    /\ Strip(question) # <<>>
    /\ pc' = "loop"
    /\ context' = <<>>
    /\ idx' = 0
    /\ UNCHANGED <<variant, secrets, env, question, uploaded_files, model_name,
                   texts, exc, http_calls, request, response, answer, displayed>>

\* one iteration of "for f in uploaded_files": text = get_file_text(f); context += ...
\* An exception of get_file_text is not caught in main and ends the run.
ExtractFile ==
    /\ pc = "loop"
    /\ idx < Len(uploaded_files)
    /\ LET f == uploaded_files[idx + 1]
           r == get_file_text(variant, f)
       IN IF r.raised
          THEN /\ pc' = "aborted"
               /\ exc' = r.exc
               /\ UNCHANGED <<idx, texts, context>>
          ELSE /\ idx' = idx + 1
               /\ texts' = Append(texts, r.value)
               /\ context' = AddSection(context, Section(variant, f.name, r.value))
               /\ UNCHANGED <<pc, exc>>
    /\ UNCHANGED <<variant, secrets, env, question, uploaded_files, model_name,
                   http_calls, request, response, answer, displayed>>

\* answer = ask_ollama(model_name, question, context)
AskOllama ==
    /\ pc = "loop"
    /\ idx = Len(uploaded_files)
    /\ pc' = "asked"
    /\ \/ /\ ~HasApiKey(variant, secrets, env)
          /\ answer' = Some(NoKeyMessage)
          /\ UNCHANGED <<http_calls, request, response>>
       \/ /\ HasApiKey(variant, secrets, env)
          /\ \E resp \in Responses :
                /\ http_calls' = http_calls + 1
                /\ request' = BuildRequest(variant, model_name,
                                           UserMessage(question, context),
                                           ResolveApiKey(secrets, env))
                /\ response' = resp
                /\ answer' = Some(AskResult(variant, resp))
    /\ UNCHANGED <<variant, secrets, env, question, uploaded_files, model_name, idx,
                   texts, context, exc, displayed>>

\* st.write(answer)
Display ==
    /\ pc = "asked"
    /\ pc' = "done"
    /\ displayed' = answer
    /\ UNCHANGED <<variant, secrets, env, question, uploaded_files, model_name, idx,
                   texts, context, exc, http_calls, request, response, answer>>

Next == WarnBlank \/ StartAsk \/ ExtractFile \/ AskOllama \/ Display

Spec == Init /\ [][Next]_vars

(***************************************************************************)
(* ask_ollama called directly with any question and any context.           *)
(***************************************************************************)
InitAsk ==
    /\ variant \in Variants
    /\ secrets \in SecretStores
    /\ env \in Environments
    /\ question \in Questions
    /\ uploaded_files = <<>>
    /\ model_name \in ModelChoices(variant)
    /\ pc = "loop"
    /\ idx = 0
    /\ texts = <<>>
    /\ context \in Contexts
    /\ exc = NoExc
    /\ http_calls = 0
    /\ request = NoRequest
    /\ response = NoResponse
    /\ answer = None
    /\ displayed = None

NextAsk == AskOllama

SpecAsk == InitAsk /\ [][NextAsk]_vars

(***************************************************************************)
(* Properties.                                                             *)
(***************************************************************************)
Asked == pc \in {"asked", "done"}

\* s begins with prefix
StartsWith(s, prefix) ==
    /\ Len(prefix) <= Len(s)
    /\ SubSeq(s, 1, Len(prefix)) = prefix

\* sub occurs in s
Contains(s, sub) ==
    \E i \in 0..(Len(s) - Len(sub)) : SubSeq(s, i + 1, i + Len(sub)) = sub

\* content of the user turn of the request sent
UserContent == request.json.messages[2].content

IsBlankText(s) == \A i \in 1..Len(s) : s[i] \in Whitespace

\* C1: for every file with a supported suffix, whatever its bytes, get_file_text
\* never raises: no call made by the run has ended in an exception.
C1_GetFileTextNeverRaises == exc = NoExc

\* C2: with a non-blank question, a run that has ended has extracted every
\* uploaded file, has called ask_ollama and has displayed an answer string: an
\* extraction failure on one file does not abort the flow.
C2_FlowNeverAborted ==
    (Strip(question) # <<>> /\ pc \in {"aborted", "done"}) =>
        /\ idx = Len(uploaded_files)
        /\ Len(texts) = Len(uploaded_files)
        /\ answer.some
        /\ displayed.some

\* C3: the user message of the request is "Context:\n" + context +
\* "\n\nQuestion: " + question, context untrimmed, when context holds a
\* non-whitespace character, and the raw question otherwise.
C3_UserMessageForm ==
    request.sent =>
        UserContent =
            IF \E i \in 1..Len(context) : context[i] \notin Whitespace
            THEN <<"C","o","n","t","e","x","t",":","\n">> \o context
                 \o <<"\n","\n","Q","u","e","s","t","i","o","n",":"," ">> \o question
            ELSE question

C3_Witness ==
    /\ request.sent
    /\ context = <<"\n","\t">>
    /\ question = <<"Q","?">>
    /\ UserContent = <<"Q","?">>

\* neither the secret store nor the environment holds a non-empty key
NoCredential ==
    /\ ~(secrets.avail /\ KEY_NAME \in DOMAIN secrets.store /\ secrets.store[KEY_NAME] # <<>>)
    /\ ~(KEY_NAME \in DOMAIN env /\ env[KEY_NAME] # <<>>)

API_key == <<"A","P","I"," ","k","e","y">>

TransportFailed ==
    \/ response.kind \in {"conn_error", "timeout"}
    \/ response.kind = "http" /\ ~(response.status \in 200..299)

FailureDetail ==
    IF response.kind = "conn_error"
    THEN <<"C","o","n","n","e","c","t","i","o","n"," ","r","e","f","u","s","e","d">>
    ELSE IF response.kind = "timeout"
    THEN <<"R","e","a","d"," ","t","i","m","e","d"," ","o","u","t">>
    ELSE <<"5","0","0"," ","S","e","r","v","e","r"," ","E","r","r","o","r">>

\* C5: when the HTTP call fails with a network error, a timeout or a non-2xx
\* status, ask_ollama returns (does not raise) a string that begins with
\* "Error" and contains the failure detail.
C5_TransportErrorString ==
    (Asked /\ TransportFailed) =>
        /\ answer.some
        /\ StartsWith(answer.s, <<"E","r","r","o","r">>)
        /\ Contains(answer.s, FailureDetail)

C5_Witness ==
    /\ Asked
    /\ response.kind = "timeout"
    /\ variant = "local"
    /\ answer = Some(<<"E","r","r","o","r"," ","t","a","l","k","i","n","g"," ","t","o"," ","O","l","l","a","m","a",":"," ","R","e","a","d"," ","t","i","m","e","d"," ","o","u","t">>)

\* the body holds the reply where the variant's provider puts it
HasExpectedReply(v, body) ==
    /\ body.wellformed
    /\ LET j == body.json IN
       IF v = "local"
       THEN /\ j.t = "dict" /\ K_message \in DOMAIN j.d
            /\ j.d[K_message].t = "dict" /\ K_content \in DOMAIN j.d[K_message].d
       ELSE /\ j.t = "dict" /\ K_choices \in DOMAIN j.d
            /\ j.d[K_choices].t = "list" /\ j.d[K_choices].l # <<>>
            /\ j.d[K_choices].l[1].t = "dict" /\ K_message \in DOMAIN j.d[K_choices].l[1].d
            /\ j.d[K_choices].l[1].d[K_message].t = "dict"
            /\ K_content \in DOMAIN j.d[K_choices].l[1].d[K_message].d

\* C6: on a success status with a malformed body, or a well-formed body missing
\* the expected reply fields, ask_ollama returns a string of the form
\* "Error <calling/talking to> <provider>: <details>", never an empty or other
\* non-error string.
C6_SchemaErrorString ==
    (Asked /\ response.kind = "http" /\ response.status = 200
        /\ ~HasExpectedReply(variant, response.body)) =>
        /\ answer.some
        /\ StartsWith(answer.s, <<"E","r","r","o","r"," ">>)
        /\ Contains(answer.s, <<":"," ">>)

Label(name) == <<"-","-","-"," ">> \o name \o <<" ","-","-","-">>

\* the sections of files n, n-1, ..., 1, built from the last one backwards:
\* separator, label header, newline, extracted text
RECURSIVE SectionsUpTo(_)
SectionsUpTo(n) ==
    IF n = 0 THEN <<>>
    ELSE SectionsUpTo(n - 1)
         \o (IF variant = "local" THEN <<"\n">> ELSE <<"\n","\n">>)
         \o Label(uploaded_files[n].name) \o <<"\n">>
         \o get_file_text(variant, uploaded_files[n]).value

\* C7: the context built by main is one section per file processed, each the
\* label header "--- <name> ---" followed by that file's extracted text, in the
\* order the files were supplied; the context handed to ask_ollama holds the
\* section of every file.
C7_ContextSectionsInOrder ==
    (pc # "form") =>
        /\ idx <= Len(uploaded_files)
        /\ Len(texts) = idx
        /\ context = SectionsUpTo(idx)
        /\ Asked => idx = Len(uploaded_files)

C7_Witness ==
    /\ Asked
    /\ variant = "hosted"
    /\ uploaded_files = <<File_a_txt, File_d_docx>>
    /\ context = <<"\n","\n","-","-","-"," ","a",".","t","x","t"," ","-","-","-","\n","X",
                   "\n","\n","-","-","-"," ","d",".","d","o","c","x"," ","-","-","-","\n",
                   "H","e","l","l","o","\n","W","o","r","l","d">>

CountNL(s) == Cardinality({i \in 1..Len(s) : s[i] = "\n"})

\* C8: for a .pdf of N pages get_file_text returns the page texts joined by
\* newlines in page order: N-1 separators, no trailing newline, a page without
\* text contributing the empty string.
C8_PdfPagesJoined ==
    \A i \in 1..Len(texts) :
        LET f == uploaded_files[i]
            N == Len(f.doc)
            page_texts == [k \in 1..N |->
                              IF f.doc[k].extract.some THEN f.doc[k].extract.s ELSE <<>>]
        IN (EndsWith(Lower(f.name), Ext_pdf) /\ f.kind = "pdf") =>
              /\ texts[i] = Join(page_texts, <<"\n">>)
              /\ CountNL(texts[i]) = (IF N = 0 THEN 0 ELSE N - 1)
              /\ ~EndsWith(texts[i], <<"\n">>)

\* C9: in app_api.py the Authorization header carries the secret store's key
\* whenever the store holds a non-empty one, whatever the environment holds; the
\* environment's key is used only when the store is unavailable, lacks the key
\* or holds an empty value.
C9_SecretStoreFirst ==
    (variant = "hosted" /\ request.sent) =>
        LET in_store == secrets.avail /\ KEY_NAME \in DOMAIN secrets.store
                        /\ secrets.store[KEY_NAME] # <<>>
        IN /\ in_store =>
                request.headers.Authorization
                    = <<"B","e","a","r","e","r"," ">> \o secrets.store[KEY_NAME]
           /\ ~in_store =>
                /\ KEY_NAME \in DOMAIN env
                /\ request.headers.Authorization
                    = <<"B","e","a","r","e","r"," ">> \o env[KEY_NAME]

C9_Witness ==
    /\ variant = "hosted"
    /\ request.sent
    /\ secrets = [avail |-> TRUE, store |-> (KEY_NAME :> <<"s","k","-","s">>)]
    /\ env = (KEY_NAME :> <<"s","k","-","e">>)
    /\ request.headers.Authorization = <<"B","e","a","r","e","r"," ","s","k","-","s">>

\* C10: with at least one file uploaded the context handed to ask_ollama is not
\* blank, even when every file extracts to empty text, and the user message has
\* the "Context:" form; the raw question is sent only when no file is uploaded.
C10_FilesGiveContextForm ==
    Asked =>
        /\ uploaded_files # <<>> => ~IsBlankText(context)
        /\ (request.sent /\ uploaded_files # <<>>) =>
              /\ StartsWith(UserContent, <<"C","o","n","t","e","x","t",":","\n">>)
              /\ UserContent # question
        /\ (request.sent /\ uploaded_files = <<>>) => UserContent = question

C10_Witness ==
    /\ Asked
    /\ request.sent
    /\ uploaded_files = <<File_p0_pdf>>
    /\ texts = << <<>> >>
    /\ StartsWith(UserContent, <<"C","o","n","t","e","x","t",":","\n">>)

====
